---- MODULE Spec2Model ----
(***************************************************************************)
(* triagebot: create(payload, messages, options) turns a channel's message *)
(* history into a triage report (src/triage.js).                           *)
(*                                                                         *)
(* Strings that the code inspects character by character (message.text,    *)
(* message.ts, payload.text, emoji names, publish_text) are sequences of   *)
(* one-character strings.  Optional object fields are optional record      *)
(* fields: a message without text is a record without a text field.        *)
(* Emoji names are non-empty and free of RegExp metacharacters; null is    *)
(* the empty sequence, which is therefore no emoji name.                   *)
(***************************************************************************)
EXTENDS Integers, Sequences, FiniteSets, TLC

VARIABLES payload, messages, options, pc, records, requests, message

vars == <<payload, messages, options, pc, records, requests, message>>

\* ------------------------------------------------------------------ bounds
MaxText == 2
MaxReactions == 2
MaxMessages == 3
MaxTs == 4

\* ----------------------------------------------------------------- helpers
null == <<>>

Min(S) == CHOOSE x \in S : \A y \in S : x <= y

SeqsUpTo(S, n) == UNION {[1..k -> S] : k \in 0..n}

\* Array.prototype.includes
includes(seq, x) == \E i \in DOMAIN seq : seq[i] = x

\* Array.prototype.indexOf: 0-based, -1 when absent
indexOf(seq, x) == IF includes(seq, x) THEN Min({i \in DOMAIN seq : seq[i] = x}) - 1 ELSE -1

\* the string `name` occurs in `text` starting at (1-based) position p
occursAt(text, p, name) ==
  /\ p + Len(name) - 1 <= Len(text)
  /\ \A k \in 1..Len(name) : text[p + k - 1] = name[k]

\* text.match(new RegExp(emojis.join('|'))): the match at the leftmost
\* position where an alternative matches, and at that position the first
\* alternative that matches; null when there is none.  Returns match[0].
match(text, emojis) ==
  LET hits == {p \in 1..Len(text) : \E i \in DOMAIN emojis : occursAt(text, p, emojis[i])}
  IN IF hits = {} THEN null
     ELSE LET p == Min(hits)
              i == Min({j \in DOMAIN emojis : occursAt(text, p, emojis[j])})
          IN emojis[i]

\* ts.replace('.', ''): a string pattern replaces the first occurrence only
replace_all_periods(ts) == SelectSeq(ts, LAMBDA ch : ch # ".")

replace_period(ts) ==
  IF includes(ts, ".")
    THEN LET p == Min({i \in DOMAIN ts : ts[i] = "."})
         IN SubSeq(ts, 1, p - 1) \o SubSeq(ts, p + 1, Len(ts))
    ELSE ts

\* ---------------------------------------------------------------- settings
red == <<"r">>
blue == <<"b">>
redblue == <<"r", "b">>
eyes == <<"e">>
glasses == <<"g">>
check == <<"c">>

DEFAULTS ==
  [ pending   |-> [emojis |-> <<red, blue>>, title |-> << <<"{{count}}">>, <<"Pending">>, <<"{{channel}}">> >>],
    review    |-> [emojis |-> <<eyes>>, title |-> << <<"{{count}}">>, <<"Review">> >>],
    addressed |-> [emojis |-> <<check>>, title |-> << <<"{{count}}">>, <<"Addressed">> >>],
    display   |-> <<"pending", "review", "addressed">>,
    display_user_attributes |-> {"pending", "review", "addressed"},
    unfurl_links |-> FALSE,
    publish_text |-> <<"p">>,
    help |-> "help" ]

\* Object.assign({}, DEFAULTS, options): a shallow merge, options win
assign(defaults, opts) ==
  [f \in DOMAIN defaults \cup DOMAIN opts |-> IF f \in DOMAIN opts THEN opts[f] ELSE defaults[f]]

\* --------------------------------------------------------------- getRequest
\* message.text.match and message.ts.replace raise a TypeError on undefined
getRequestThrows(m) == "text" \notin DOMAIN m \/ "ts" \notin DOMAIN m

\* (message.reactions || []).map(r => r.name)
reactionNames(m) ==
  IF "reactions" \in DOMAIN m THEN [i \in DOMAIN m.reactions |-> m.reactions[i].name] ELSE <<>>

reaction_match(settings, reactions) ==
  \E i \in DOMAIN settings.pending.emojis : includes(reactions, settings.pending.emojis[i])

\* [...new Set([...a].filter(x => b.has(x)))][0] with a the pending emojis in
\* their configured order and b the reaction names: Sets iterate in
\* insertion order, so this is the first pending emoji that is a reaction
intersection_by_reactions(emojis, reactions) ==
  SelectSeq(reactions, LAMBDA x : includes(emojis, x))[1]

intersection(emojis, reactions) ==
  SelectSeq(emojis, LAMBDA x : includes(reactions, x))[1]

resolveEmoji(settings, m) ==
  IF reaction_match(settings, reactionNames(m))
    THEN intersection(settings.pending.emojis, reactionNames(m))
    ELSE match(m.text, settings.pending.emojis)

addressedFlag(settings, reactions) ==
  \E i \in DOMAIN settings.addressed.emojis : includes(reactions, settings.addressed.emojis[i])

reviewFlag_no_precedence(settings, reactions) ==
  \E i \in DOMAIN settings.review.emojis : includes(reactions, settings.review.emojis[i])

reviewFlag(settings, reactions) ==
  /\ \E i \in DOMAIN settings.review.emojis : includes(reactions, settings.review.emojis[i])
  /\ ~addressedFlag(settings, reactions)

\* emoji && !review && !addressed, as a truth value (a null emoji is falsy)
pendingFlag_ignores_review(emoji, review, addressed) == emoji # null /\ ~addressed

pendingFlag(emoji, review, addressed) == emoji # null /\ ~review /\ ~addressed

getRequest(settings, m) ==
  LET reactions == reactionNames(m)
      emoji     == resolveEmoji(settings, m)
      addressed == addressedFlag(settings, reactions)
      review    == reviewFlag(settings, reactions)
  IN [ bot       |-> ("subtype" \in DOMAIN m /\ m.subtype = "bot_message"),
       priority  |-> indexOf(settings.pending.emojis, emoji),
       emoji     |-> emoji,
       review    |-> review,
       addressed |-> addressed,
       pending   |-> pendingFlag(emoji, review, addressed),
       id        |-> replace_period(m.ts),
       message   |-> m ]

\* ------------------------------------------------------------------- create
\* let filter = m => m.emoji && !m.bot
filter_keeps_bots(m) == m.emoji # null

filter(m) == m.emoji # null /\ ~m.bot

\* let sort = (a, b) => a.priority - b.priority
sort_reversed(a, b) == b.priority - a.priority

sort(a, b) == a.priority - b.priority

\* Array.prototype.sort(compare) is a stable sort: an element is placed
\* after every element that does not compare greater than it
RECURSIVE insert(_, _)
insert(sorted, x) ==
  IF sorted = <<>> THEN <<x>>
  ELSE IF sort(Head(sorted), x) > 0 THEN <<x>> \o sorted
  ELSE <<Head(sorted)>> \o insert(Tail(sorted), x)

RECURSIVE Array_sort(_)
Array_sort(seq) ==
  IF seq = <<>> THEN <<>>
  ELSE insert(Array_sort(SubSeq(seq, 1, Len(seq) - 1)), seq[Len(seq)])

\* ---------------------------------------------------- buildAttributeString
\* Array.prototype.join(','), which is also how a template literal renders
\* an array
RECURSIVE join(_)
join(arr) ==
  IF arr = <<>> THEN <<>>
  ELSE IF Len(arr) = 1 THEN <<arr[1]>>
  ELSE <<arr[1], ",">> \o join(Tail(arr))

\* reactions.filter(r => r.name === review.emojis[0]).map(u => u.users):
\* one entry per matching reaction, each entry that reaction's users array
reviewUsers(settings, request) ==
  LET hits == SelectSeq(request.message.reactions, LAMBDA r : r.name = settings.review.emojis[1])
  IN [i \in DOMAIN hits |-> hits[i].users]

\* `${users[0]}`: users[0] is the users array of the first matching reaction,
\* rendered with its elements joined by commas; undefined when nothing matched
usersMention(users) == IF users = <<>> THEN <<"undefined">> ELSE join(users[1])

buildAttributeString(settings, request) ==
  IF "pending" \in settings.display_user_attributes /\ request.pending
    THEN <<"<@", request.message.user, ">">>
  ELSE IF "addressed" \in settings.display_user_attributes /\ request.addressed
    THEN <<"<@", request.message.user, ">">>
  ELSE IF "review" \in settings.display_user_attributes /\ request.review
    THEN <<"(:">> \o settings.review.emojis[1] \o <<": <@">>
           \o usersMention(reviewUsers(settings, request)) \o <<">)">>
  ELSE <<>>

\* ------------------------------------------------------------ buildSection
\* the decimal digits of a natural number, as String(n) renders it
RECURSIVE decimal(_)
decimal(n) ==
  LET digit == <<"0", "1", "2", "3", "4", "5", "6", "7", "8", "9">>[(n % 10) + 1]
  IN IF n < 10 THEN <<digit>> ELSE decimal(n \div 10) \o <<digit>>

\* text.replace(/{{count}}/g, n) then text.replace(/{{channel}}/g, `<#id|name>`)
\* on one token of the title
replace_template(token, count, channel_id, channel_name) ==
  IF token = <<"{{count}}">> THEN decimal(count)
  ELSE IF token = <<"{{channel}}">> THEN <<"<#", channel_id, "|", channel_name, ">">>
  ELSE token

\* requests.filter(r => r[name])
sectionRequests_all(reqs, name) == reqs

sectionRequests(reqs, name) == SelectSeq(reqs, LAMBDA r : r[name])

\* The section text is [title].concat(items).join('\n'): the title line,
\* a sequence of tokens, and one line per item.  No emoji, url or user of
\* the model holds a template field, so the replacements act on the title.
buildSection(settings, reqs, pl, name) ==
  LET title    == settings[name].title
      filtered == sectionRequests(reqs, name)
      baseUrl  == <<"https://", pl.team_domain, ".slack.com/archives/", pl.channel_name, "/p">>
      items    == [i \in DOMAIN filtered |->
                     [ emoji |-> filtered[i].emoji,
                       url   |-> baseUrl \o filtered[i].id,
                       attr  |-> buildAttributeString(settings, filtered[i]) ]]
  IN [ title |-> [k \in DOMAIN title |->
                    replace_template(title[k], Len(filtered), pl.channel_id, pl.channel_name)],
       items |-> items ]

\* ------------------------------------------------------------ buildMessage
\* the 'i' flag: letters are compared after case folding
toLowerCase(ch) == IF ch = "P" THEN "p" ELSE IF ch = "X" THEN "x" ELSE ch

\* new RegExp(settings.publish_text, 'i').test(payload.text)
publish_test_case_sensitive(publish_text, text) ==
  \E p \in 1..(Len(text) + 1) : occursAt(text, p, publish_text)

publish_test(publish_text, text) ==
  \E p \in 1..(Len(text) + 1) :
    occursAt([k \in DOMAIN text |-> toLowerCase(text[k])], p,
             [k \in DOMAIN publish_text |-> toLowerCase(publish_text[k])])

\* message.text is the section texts joined by '\n\n\n': the sequence of sections
buildMessage(pl, reqs, settings) ==
  LET text == [i \in DOMAIN settings.display |-> buildSection(settings, reqs, pl, settings.display[i])]
  IN IF publish_test(settings.publish_text, pl.text)
       THEN [unfurl_links |-> settings.unfurl_links, text |-> text, response_type |-> "in_channel"]
       ELSE [unfurl_links |-> settings.unfurl_links, text |-> text, attachments |-> settings.help]

\* ------------------------------------------------------------------ inputs
Ts0 == <<"1", ".", "2">>

Payload0 == [channel_id |-> "C1", channel_name |-> "general", team_domain |-> "team", text |-> <<>>]

\* let settings = Object.assign({}, DEFAULTS, options)
settings == assign(DEFAULTS, options)

ClassifierOverrides ==
  { <<>>,
    [pending |-> [emojis |-> <<blue, red>>, title |-> DEFAULTS.pending.title]],
    [pending |-> [emojis |-> <<redblue, blue>>, title |-> DEFAULTS.pending.title]],
    [review  |-> [emojis |-> <<eyes, glasses>>, title |-> DEFAULTS.review.title]] }

\* one message, with every text and every list of reactions within the
\* bounds, or without a reactions field
ClassifierInputs ==
  \E t \in SeqsUpTo({"r", "b", "x"}, MaxText) :
    /\ payload = Payload0
    /\ options \in ClassifierOverrides
    /\ \/ messages = << [ts |-> Ts0, user |-> "U1", text |-> t] >>
       \/ \E ns \in SeqsUpTo({red, blue, redblue, eyes, glasses, check}, MaxReactions) :
            messages = << [ts |-> Ts0, user |-> "U1", text |-> t,
                           reactions |-> [i \in DOMAIN ns |-> [name |-> ns[i], users |-> <<"U2">>]]] >>

\* the messages of a history: pending by text (two authors, two priorities),
\* pending by reaction, addressed, in review, a bot post, a message without
\* a pending emoji, a message without text and a message without ts
Catalog ==
  { [ts |-> <<"1", ".", "1">>, user |-> "U1", text |-> <<"r">>],
    [ts |-> <<"1", ".", "2">>, user |-> "U2", text |-> <<"r">>],
    [ts |-> <<"1", ".", "3">>, user |-> "U1", text |-> <<"x", "b">>],
    [ts |-> <<"1", ".", "4">>, user |-> "U2", text |-> <<"b">>,
       reactions |-> << [name |-> red, users |-> <<"U1">>] >>],
    [ts |-> <<"1", ".", "5">>, user |-> "U1", text |-> <<"r">>,
       reactions |-> << [name |-> eyes, users |-> <<"U1">>], [name |-> check, users |-> <<"U2">>] >>],
    [ts |-> <<"1", ".", "6">>, user |-> "U1", text |-> <<"b">>,
       reactions |-> << [name |-> eyes, users |-> <<"U2">>] >>],
    [ts |-> <<"1", ".", "7">>, user |-> "U1", text |-> <<"r">>, subtype |-> "bot_message"],
    [ts |-> <<"1", ".", "8">>, user |-> "U2", text |-> <<"x">>,
       reactions |-> << [name |-> eyes, users |-> <<"U1">>] >>],
    [ts |-> <<"1", ".", "9">>, user |-> "U1"],
    [user |-> "U1", text |-> <<"r">>] }

DisplayOverrides ==
  { <<>>,
    [display |-> <<"addressed", "pending", "review">>, display_user_attributes |-> {}] }

\* a history of up to MaxMessages messages of the catalog
PipelineInputs ==
  /\ payload = Payload0
  /\ options \in DisplayOverrides
  /\ \E k \in 0..MaxMessages : messages \in [1..k -> Catalog]

AttributeOverrides ==
  { <<>>,
    [review |-> [emojis |-> <<eyes, glasses>>, title |-> DEFAULTS.review.title]],
    [display_user_attributes |-> {"pending"}] }

\* the users of a reaction: none, one, or two in either order
UserLists == { <<>>, <<"U1">>, <<"U2">>, <<"U1", "U2">>, <<"U2", "U1">> }

\* one message with a pending emoji in its text and every list of review and
\* addressed reactions, each with every list of users
AttributeInputs ==
  /\ payload = Payload0
  /\ options \in AttributeOverrides
  /\ \E k \in 0..MaxReactions : \E rs \in [1..k -> [name : {eyes, glasses, check}, users : UserLists]] :
       messages = << [ts |-> Ts0, user |-> "U3", text |-> <<"r">>, reactions |-> rs] >>

\* two messages with every pair of timestamps
TsInputs ==
  /\ payload = Payload0
  /\ options = <<>>
  /\ \E t1, t2 \in SeqsUpTo({"1", "."}, MaxTs) :
       messages = << [ts |-> t1, user |-> "U1", text |-> <<"r">>],
                     [ts |-> t2, user |-> "U2", text |-> <<"b">>] >>

PublishOverrides ==
  { <<>>, [publish_text |-> <<"P", "x">>], [publish_text |-> <<>>] }

\* every command text against every publish pattern
PayloadInputs ==
  /\ \E t \in SeqsUpTo({"p", "P", "x"}, MaxText + 1) : payload = [Payload0 EXCEPT !.text = t]
  /\ options \in PublishOverrides
  /\ messages \in {<<>>, << [ts |-> Ts0, user |-> "U1", text |-> <<"r">>] >>}

\* ----------------------------------------------------------------- actions
Init ==
  /\ ClassifierInputs \/ PipelineInputs \/ AttributeInputs \/ TsInputs \/ PayloadInputs
  /\ pc = "call"
  /\ records = <<>>
  /\ requests = <<>>
  /\ message = <<>>

\* create(payload, messages, options): returns the report, or raises the
\* TypeError of the first message getRequest cannot read
Create ==
  /\ pc = "call"
  /\ IF \E i \in DOMAIN messages : getRequestThrows(messages[i])
       THEN /\ pc' = "throw"
            /\ UNCHANGED <<records, requests, message>>
       ELSE /\ pc' = "return"
            /\ records' = [i \in DOMAIN messages |-> getRequest(settings, messages[i])]
            /\ requests' = Array_sort(SelectSeq(records', filter))
            /\ message' = buildMessage(payload, requests', settings)
  /\ UNCHANGED <<payload, messages, options>>

Next == Create

Spec == Init /\ [][Next]_vars

\* ================================================================== claims
\* the set of reaction names a message carries (none without reactions)
NameSet(m) == IF "reactions" \in DOMAIN m THEN {m.reactions[k].name : k \in DOMAIN m.reactions} ELSE {}

\* the emojis of a configured list, as a set
EmojiSet(list) == {list[j] : j \in DOMAIN list}

\* some pending emoji occurs somewhere in the text
TextHasPending(text) ==
  \E q \in 1..Len(text) : \E j \in DOMAIN settings.pending.emojis :
    occursAt(text, q, settings.pending.emojis[j])

\* the message with one more reaction appended
WithReaction(m, name) ==
  LET r == [name |-> name, users |-> <<"U9">>]
  IN IF "reactions" \in DOMAIN m
       THEN [m EXCEPT !.reactions = Append(@, r)]
       ELSE [f \in DOMAIN m \cup {"reactions"} |-> IF f = "reactions" THEN <<r>> ELSE m[f]]

\* C1: every classification record has at most one of the flags pending,
\* review, addressed true
C1_FlagsPairwiseExclusive ==
  \A i \in DOMAIN records :
    /\ ~(records[i].pending /\ records[i].review)
    /\ ~(records[i].pending /\ records[i].addressed)
    /\ ~(records[i].review /\ records[i].addressed)

\* a message with a pending emoji that carries both a review and an
\* addressed reaction has been classified
C1_Witness ==
  /\ pc = "return"
  /\ \E i \in DOMAIN records :
       /\ records[i].emoji # null
       /\ NameSet(messages[i]) \cap EmojiSet(settings.review.emojis) # {}
       /\ NameSet(messages[i]) \cap EmojiSet(settings.addressed.emojis) # {}

\* C5: a message with a reaction in addressed.emojis is addressed and neither
\* in review nor pending, whatever else it carries; and a pending message
\* given an addressed reaction is classified addressed and no longer pending
C5_AddressedTakesPrecedence ==
  pc = "return" =>
    \A i \in DOMAIN records :
      /\ NameSet(messages[i]) \cap EmojiSet(settings.addressed.emojis) # {}
           => records[i].addressed /\ ~records[i].review /\ ~records[i].pending
      /\ records[i].pending =>
           \A a \in EmojiSet(settings.addressed.emojis) :
             LET flipped == getRequest(settings, WithReaction(messages[i], a))
             IN flipped.addressed /\ ~flipped.pending /\ ~flipped.review

\* an addressed record whose message also has a review reaction and a pending
\* emoji, and a pending record that an addressed reaction would flip
C5_Witness ==
  /\ pc = "return"
  /\ \E i \in DOMAIN records :
       /\ records[i].addressed
       /\ records[i].emoji # null
       /\ NameSet(messages[i]) \cap EmojiSet(settings.review.emojis) # {}
  /\ \E i \in DOMAIN records : records[i].pending

\* C8: with a pending emoji among the reactions, the resolved emoji is the
\* lowest-index pending emoji that is a reaction name (a function of the set
\* of reaction names, so independent of their order), whatever the text
\* holds; without one it is a pending emoji at the leftmost position of the
\* text where any pending emoji occurs, or null when none occurs
C8_ResolvedEmoji ==
  pc = "return" =>
    \A i \in DOMAIN records :
      LET pend  == settings.pending.emojis
          names == NameSet(messages[i])
          text  == messages[i].text
          emoji == records[i].emoji
      IN IF names \cap EmojiSet(pend) # {}
           THEN \E j \in DOMAIN pend :
                  /\ emoji = pend[j]
                  /\ pend[j] \in names
                  /\ \A k \in 1..(j - 1) : pend[k] \notin names
           ELSE IF TextHasPending(text)
             THEN \E p \in 1..Len(text) :
                    /\ emoji \in EmojiSet(pend)
                    /\ occursAt(text, p, emoji)
                    /\ \A q \in 1..(p - 1) : \A k \in DOMAIN pend : ~occursAt(text, q, pend[k])
             ELSE emoji = null

\* the reactions list two pending emojis in the reverse of their configured
\* order while the text holds the lower-priority one, and a message whose
\* emoji comes from its text alone has been classified
C8_Witness ==
  /\ pc = "return"
  /\ \E i \in DOMAIN records :
       /\ Len(settings.pending.emojis) = 2
       /\ reactionNames(messages[i]) = <<settings.pending.emojis[2], settings.pending.emojis[1]>>
       /\ match(messages[i].text, settings.pending.emojis) = settings.pending.emojis[2]
       /\ records[i].emoji = settings.pending.emojis[1]

\* how many times x occurs in seq
Count(seq, x) == Cardinality({k \in DOMAIN seq : seq[k] = x})

\* the message has a pending emoji in its text or among its reactions
HasPendingEmoji(m) ==
  TextHasPending(m.text) \/ NameSet(m) \cap EmojiSet(settings.pending.emojis) # {}

IsBotPost(m) == "subtype" \in DOMAIN m /\ m.subtype = "bot_message"

\* C2: a record reaches the renderer iff its emoji is non-null and it is no
\* bot post: messages without a pending emoji in text and reactions are
\* dropped, bot posts are dropped, and no other message is dropped
C2_RendererGetsExactlyNonBotEmojiRecords ==
  pc = "return" =>
    /\ \A i \in DOMAIN records :
         Count(requests, records[i]) =
           IF records[i].emoji # null /\ ~records[i].bot THEN Count(records, records[i]) ELSE 0
    /\ \A k \in DOMAIN requests : \E i \in DOMAIN records : requests[k] = records[i]
    /\ \A i \in DOMAIN messages :
         (\E k \in DOMAIN requests : requests[k].message = messages[i])
           <=> (HasPendingEmoji(messages[i]) /\ ~IsBotPost(messages[i]))

\* a history holding a bot post with a pending emoji, a message without any
\* pending emoji and a message that is kept has been filtered
C2_Witness ==
  /\ pc = "return"
  /\ \E i \in DOMAIN messages : IsBotPost(messages[i]) /\ HasPendingEmoji(messages[i])
  /\ \E i \in DOMAIN messages : ~HasPendingEmoji(messages[i])
  /\ requests # <<>>

\* the records the selector keeps, in input order
Survivors == SelectSeq(records, LAMBDA r : r.emoji # null /\ ~r.bot)

\* the index of a record's resolved emoji in pending.emojis
Rank(r) == CHOOSE j \in DOMAIN settings.pending.emojis : settings.pending.emojis[j] = r.emoji

\* C3: the renderer's records are the surviving records in ascending order
\* of their emoji's index in pending.emojis, records of equal priority in
\* the order of the input
C3_StableAscendingPriority ==
  pc = "return" =>
    /\ Len(requests) = Len(Survivors)
    /\ \E perm \in [DOMAIN requests -> DOMAIN requests] :
         /\ \A i, j \in DOMAIN requests : i # j => perm[i] # perm[j]
         /\ \A i \in DOMAIN requests : requests[i] = Survivors[perm[i]]
         /\ \A i, j \in DOMAIN requests :
              i < j => \/ Rank(requests[i]) < Rank(requests[j])
                       \/ Rank(requests[i]) = Rank(requests[j]) /\ perm[i] < perm[j]

\* three surviving records, the first of lower priority than the two that
\* follow it, which are distinct and of equal priority, have been sorted
C3_Witness ==
  /\ pc = "return"
  /\ Len(Survivors) = 3
  /\ Rank(Survivors[1]) > Rank(Survivors[2])
  /\ Rank(Survivors[2]) = Rank(Survivors[3])
  /\ Survivors[2] # Survivors[3]
  /\ requests = <<Survivors[2], Survivors[3], Survivors[1]>>

\* two letters equal up to case
SameLetter(a, b) == a = b \/ {a, b} \in {{"p", "P"}, {"x", "X"}}

\* the publish pattern occurs somewhere in the command text, ignoring case
PublishRequested ==
  \E p \in 1..(Len(payload.text) + 1) :
    /\ p + Len(settings.publish_text) - 1 <= Len(payload.text)
    /\ \A k \in DOMAIN settings.publish_text :
         SameLetter(payload.text[p + k - 1], settings.publish_text[k])

\* C4: the response has response_type "in_channel" and no attachments field
\* when payload.text matches publish_text, ignoring case, anywhere; otherwise
\* attachments set to the help content and no response_type field
C4_ExactlyOneOfResponseTypeAndAttachments ==
  pc = "return" =>
    IF PublishRequested
      THEN /\ DOMAIN message = {"unfurl_links", "text", "response_type"}
           /\ message.response_type = "in_channel"
      ELSE /\ DOMAIN message = {"unfurl_links", "text", "attachments"}
           /\ message.attachments = settings.help

\* a command text that holds the pattern only in another case, after other
\* text, has been answered in the channel
C4_Witness ==
  /\ pc = "return"
  /\ settings.publish_text = <<"P", "x">>
  /\ payload.text = <<"x", "p", "x">>
  /\ "response_type" \in DOMAIN message

\* the index of the first period of a timestamp, 0 when it has none
FirstPeriod(ts) == IF \E k \in DOMAIN ts : ts[k] = "." THEN Min({k \in DOMAIN ts : ts[k] = "."}) ELSE 0

\* C6, as claimed: a message without text or without ts does not abort the
\* report; create returns a response whose sections hold the well-formed
\* messages that the selector keeps
C6_MalformedMessageDoesNotAbort ==
  (pc # "call" /\ \E i \in DOMAIN messages : "text" \notin DOMAIN messages[i] \/ "ts" \notin DOMAIN messages[i])
    => /\ pc = "return"
       /\ "text" \in DOMAIN message

\* C7, as claimed: records of messages whose ts differ have different ids
\* (the messages are those of the data model, whose ts holds a period)
C7_DistinctTsDistinctId ==
  pc = "return" =>
    \A i, j \in DOMAIN records :
      (/\ FirstPeriod(messages[i].ts) # 0
       /\ FirstPeriod(messages[j].ts) # 0
       /\ messages[i].ts # messages[j].ts)
        => records[i].id # records[j].id

\* C7, amended: records of messages whose ts differ and have their first
\* period at the same index have different ids
C7_DistinctTsSamePeriodIndexDistinctId ==
  pc = "return" =>
    \A i, j \in DOMAIN records :
      (/\ FirstPeriod(messages[i].ts) # 0
       /\ FirstPeriod(messages[i].ts) = FirstPeriod(messages[j].ts)
       /\ messages[i].ts # messages[j].ts)
        => records[i].id # records[j].id

\* two messages whose ts differ only after a first period at the same index,
\* one of them holding a second period, have been given ids
C7_Witness ==
  /\ pc = "return"
  /\ Len(records) = 2
  /\ FirstPeriod(messages[1].ts) = 2
  /\ FirstPeriod(messages[2].ts) = 2
  /\ Len(messages[1].ts) = 4
  /\ Len(messages[2].ts) = 4
  /\ messages[1].ts # messages[2].ts
  /\ \E k \in 3..4 : messages[1].ts[k] = "."
  /\ records[1].id # records[2].id

\* the review-flagged records the renderer gets, in their order
ReviewRequests == SelectSeq(requests, LAMBDA r : r.review)

\* the reactions of a record's message named review.emojis[0]
FirstReviewEmojiReactions(r) ==
  SelectSeq(r.message.reactions, LAMBDA x : x.name = settings.review.emojis[1])

\* C9, as claimed: with attribution enabled for review, the suffix of a
\* review-flagged record mentions exactly the first user of the message's
\* reaction named review.emojis[0], also when that reaction has several
\* users, and is a no-user reference when the message has no such reaction
C9_ReviewSuffixMentionsFirstUser ==
  (pc = "return" /\ "review" \in settings.display_user_attributes) =>
    \A s \in DOMAIN message.text :
      settings.display[s] = "review" =>
        \A k \in DOMAIN message.text[s].items :
          LET hits == FirstReviewEmojiReactions(ReviewRequests[k])
              open == <<"(:">> \o settings.review.emojis[1] \o <<": <@">>
              attr == message.text[s].items[k].attr
          IN IF hits = <<>> THEN attr = open \o <<"undefined", ">)">>
             ELSE hits[1].users # <<>> => attr = open \o <<hits[1].users[1], ">)">>

\* C10: every record the renderer gets has exactly one of pending, review,
\* addressed true; when display lists each of the three names once, each
\* record is a line of exactly one section, each section has one line per
\* record with its flag, its {{count}} is that number, and the counts sum to
\* the number of records
C10_EveryRecordInExactlyOneSection ==
  pc = "return" =>
    /\ \A i \in DOMAIN requests :
         Cardinality({n \in {"pending", "review", "addressed"} : requests[i][n]}) = 1
    /\ (Len(settings.display) = 3 /\ EmojiSet(settings.display) = {"pending", "review", "addressed"}) =>
         /\ \A i \in DOMAIN requests :
              Cardinality({s \in DOMAIN message.text :
                 \E k \in DOMAIN message.text[s].items :
                    /\ requests[i][settings.display[s]]
                    /\ message.text[s].items[k].emoji = requests[i].emoji
                    /\ message.text[s].items[k].url
                         = <<"https://", payload.team_domain, ".slack.com/archives/", payload.channel_name, "/p">>
                             \o requests[i].id}) = 1
         /\ \A s \in DOMAIN message.text :
              /\ Len(message.text[s].items)
                   = Cardinality({i \in DOMAIN requests : requests[i][settings.display[s]]})
              /\ message.text[s].title[1] = decimal(Len(message.text[s].items))
         /\ Len(message.text[1].items) + Len(message.text[2].items) + Len(message.text[3].items)
              = Len(requests)

\* a report with a pending, a review and an addressed record has been
\* rendered in three sections
C10_Witness ==
  /\ pc = "return"
  /\ Len(settings.display) = 3
  /\ \E i \in DOMAIN requests : requests[i].pending
  /\ \E i \in DOMAIN requests : requests[i].review
  /\ \E i \in DOMAIN requests : requests[i].addressed
  /\ \A s \in DOMAIN message.text : Len(message.text[s].items) = 1

====
